---- MODULE Spec2Model ----
(***************************************************************************)
(* MinGRU (cheind/mingru): the functional core (mingru/functional.py) and  *)
(* the layer stack (mingru/modules.py), over exact arithmetic.             *)
(*                                                                         *)
(* Numbers.  The program works on floats; the model works on the exact     *)
(* reals the floats approximate, restricted to the reals that have a       *)
(* finite name:                                                            *)
(*    Lin(q)  the rational q              (q = <<n, d>>, d > 0, reduced)   *)
(*    Log(q)  the real ln(q), q >= 0      (Log(0) is -inf)                 *)
(*    NaNv    not-a-number                                                 *)
(*    Unrep   a real with no such name (the inputs are chosen so that it   *)
(*            never arises; NoUnrep states this as an invariant)           *)
(* ln(1) = 0 is kept as Lin(0).  Floating-point rounding is not modelled:  *)
(* equalities of the model are equalities of real numbers.                 *)
(***************************************************************************)
EXTENDS Integers, Sequences, FiniteSets, TLC

----------------------------------------------------------------------------
(* Rationals *)

RECURSIVE Gcd(_, _)
Gcd(a, b) == IF b = 0 THEN a ELSE Gcd(b, a % b)

Abs(n) == IF n < 0 THEN -n ELSE n

QNaN == <<0, 0>>

QIsNaN(q) == q[2] = 0

\* n/d reduced, with a positive denominator
Q(n, d) ==
    IF d = 0 THEN QNaN
    ELSE LET k == Gcd(Abs(n), Abs(d))
             s == IF d < 0 THEN -1 ELSE 1
         IN  <<(s * n) \div k, (s * d) \div k>>

\* sums over the least common denominator, products reduced crosswise
\* first: the integers in between stay small
QAdd(p, q) ==
    IF QIsNaN(p) \/ QIsNaN(q) THEN QNaN
    ELSE LET k == Gcd(p[2], q[2])
         IN  Q(p[1] * (q[2] \div k) + q[1] * (p[2] \div k), p[2] * (q[2] \div k))

QSub(p, q) == QAdd(p, <<-q[1], q[2]>>)

QMul(p, q) ==
    IF QIsNaN(p) \/ QIsNaN(q) THEN QNaN
    ELSE LET a == Q(p[1], q[2])
             b == Q(q[1], p[2])
         IN  Q(a[1] * b[1], a[2] * b[2])

QDiv(p, q) == IF QIsNaN(p) \/ QIsNaN(q) THEN QNaN ELSE QMul(p, Q(q[2], q[1]))

\* comparisons with NaN are false, as in IEEE arithmetic
QLt(p, q) == ~QIsNaN(p) /\ ~QIsNaN(q) /\ p[1] * q[2] < q[1] * p[2]

QLe(p, q) == ~QIsNaN(p) /\ ~QIsNaN(q) /\ p[1] * q[2] <= q[1] * p[2]

QZero == <<0, 1>>
QOne == <<1, 1>>
QHalf == <<1, 2>>

RECURSIVE QPow(_, _)
QPow(q, k) == IF k = 0 THEN QOne ELSE QMul(q, QPow(q, k - 1))

----------------------------------------------------------------------------
(* The reals of the model *)

Lin(q) == [k |-> "lin", v |-> q]

\* ln(q); ln(1) is the rational 0
Log(q) == IF q = QOne THEN Lin(QZero) ELSE [k |-> "log", v |-> q]

\* the integer n, and ln(n / d)
Whole(n) == Lin(<<n, 1>>)

Ln(n, d) == Log(<<n, d>>)

NaNv == Lin(QNaN)

Unrep == [k |-> "unrep", v |-> QNaN]

IsNaN(x) == x.k = "lin" /\ QIsNaN(x.v)

IsUnrep(x) == x.k = "unrep"

IsLin(x) == x.k = "lin" /\ ~QIsNaN(x.v)

IsZero(x) == x = Lin(QZero)

\* x is ln(q) for a rational q >= 0: q
LogArg(x) == IF IsZero(x) THEN QOne ELSE x.v

IsLog(x) == x.k = "log" \/ IsZero(x)

IsNegInf(x) == x.k = "log" /\ x.v = QZero

IsInt(x) == IsLin(x) /\ x.v[2] = 1

\* finite and > 0
IsPositive(x) ==
    \/ IsLin(x) /\ x.v[1] > 0
    \/ x.k = "log" /\ QLt(QOne, x.v)

\* x >= 0 (false for NaN)
GeZero(x) ==
    \/ IsLin(x) /\ x.v[1] >= 0
    \/ x.k = "log" /\ QLe(QOne, x.v)

Add(x, y) ==
    IF IsUnrep(x) \/ IsUnrep(y) THEN Unrep
    ELSE IF IsNaN(x) \/ IsNaN(y) THEN NaNv
    ELSE IF IsZero(x) THEN y
    ELSE IF IsZero(y) THEN x
    ELSE IF IsLin(x) /\ IsLin(y) THEN Lin(QAdd(x.v, y.v))
    ELSE IF IsLog(x) /\ IsLog(y) THEN Log(QMul(x.v, y.v))
    ELSE Unrep

Neg(x) ==
    IF IsUnrep(x) THEN Unrep
    ELSE IF IsNaN(x) THEN NaNv
    ELSE IF IsLin(x) THEN Lin(QSub(QZero, x.v))
    ELSE IF IsNegInf(x) THEN Unrep
    ELSE Log(QDiv(QOne, x.v))

Sub(x, y) == Add(x, Neg(y))

Mul(x, y) ==
    IF IsUnrep(x) \/ IsUnrep(y) THEN Unrep
    ELSE IF IsNaN(x) \/ IsNaN(y) THEN NaNv
    ELSE IF IsLin(x) /\ IsLin(y) THEN Lin(QMul(x.v, y.v))
    ELSE IF IsInt(x) /\ x.v[1] >= 0 /\ y.k = "log" THEN Log(QPow(y.v, x.v[1]))
    ELSE IF IsInt(y) /\ y.v[1] >= 0 /\ x.k = "log" THEN Log(QPow(x.v, y.v[1]))
    ELSE Unrep

\* torch.log: log(0) = -inf, log of a negative number = nan
LogOf(x) ==
    IF IsUnrep(x) THEN Unrep
    ELSE IF IsNaN(x) THEN NaNv
    ELSE IF ~IsLin(x) THEN Unrep
    ELSE IF x.v[1] < 0 THEN NaNv
    ELSE Log(x.v)

\* torch.exp
Exp(x) ==
    IF IsUnrep(x) THEN Unrep
    ELSE IF IsNaN(x) THEN NaNv
    ELSE IF IsLog(x) THEN Lin(LogArg(x))
    ELSE Unrep

\* torch.sigmoid: sigmoid(ln q) = q / (1 + q)
Sigmoid(x) ==
    IF IsUnrep(x) THEN Unrep
    ELSE IF IsNaN(x) THEN NaNv
    ELSE IF IsLog(x) THEN Lin(QDiv(LogArg(x), QAdd(QOne, LogArg(x))))
    ELSE Unrep

\* F.softplus: softplus(ln q) = ln(1 + q)
Softplus(x) ==
    IF IsUnrep(x) THEN Unrep
    ELSE IF IsNaN(x) THEN NaNv
    ELSE IF IsLog(x) THEN Log(QAdd(QOne, LogArg(x)))
    ELSE Unrep

\* ln(e^x + e^y), the step of torch.logcumsumexp
LogAddExp(x, y) ==
    IF IsUnrep(x) \/ IsUnrep(y) THEN Unrep
    ELSE IF IsNaN(x) \/ IsNaN(y) THEN NaNv
    ELSE IF IsLog(x) /\ IsLog(y) THEN Log(QAdd(LogArg(x), LogArg(y)))
    ELSE Unrep

----------------------------------------------------------------------------
(* Tensors: a shape and one real per index tuple (indices from 1); a call  *)
(* that raises is the value Err(message), which every operation passes on. *)

T(shape, data) == [err |-> "", shape |-> shape, data |-> data]

Err(m) == [err |-> m, shape |-> <<>>, data |-> <<>>]

\* Python's None (an absent bias)
None == Err("None")

IsNone(t) == t.err = "None"

IsErr(t) == t.err # ""

Rank(t) == Len(t.shape)

RECURSIVE Idx(_)
Idx(shape) ==
    IF shape = <<>> THEN {<<>>}
    ELSE {<<i>> \o r : i \in 1..Head(shape), r \in Idx(Tail(shape))}

Max(a, b) == IF a >= b THEN a ELSE b

Front(s) == SubSeq(s, 1, Len(s) - 1)

Full(shape, v) == T(shape, [i \in Idx(shape) |-> v])

\* F(v), with v evaluated once
Let(v, F(_)) == CHOOSE y \in {F(e) : e \in {v}} : TRUE

\* an elementwise operation
Map(F(_), t) ==
    IF IsErr(t) THEN t ELSE T(t.shape, [i \in Idx(t.shape) |-> F(t.data[i])])

\* torch's broadcasting of two shapes, aligned at the last axis; <<-1>> when
\* two sizes differ and neither is 1
BShape(s, u) ==
    LET n == Max(Len(s), Len(u))
        ds(j) == IF j > n - Len(s) THEN s[j - (n - Len(s))] ELSE 1
        du(j) == IF j > n - Len(u) THEN u[j - (n - Len(u))] ELSE 1
    IN  IF \E j \in 1..n : ds(j) # du(j) /\ ds(j) # 1 /\ du(j) # 1
        THEN <<-1>>
        ELSE [j \in 1..n |-> IF ds(j) = 1 THEN du(j) ELSE ds(j)]

\* the index of the operand of shape s that the result's index i reads
BIdx(s, i) ==
    LET off == Len(i) - Len(s)
    IN  [j \in 1..Len(s) |-> IF s[j] = 1 THEN 1 ELSE i[j + off]]

\* a binary elementwise operation with broadcasting
Bin(F(_, _), a, b) ==
    IF IsErr(a) THEN a
    ELSE IF IsErr(b) THEN b
    ELSE LET sh == BShape(a.shape, b.shape)
         IN  IF sh = <<-1>> THEN Err("size mismatch")
             ELSE T(sh, [i \in Idx(sh) |->
                        F(a.data[BIdx(a.shape, i)], b.data[BIdx(b.shape, i)])])

TAdd(a, b) == Bin(Add, a, b)
TSub(a, b) == Bin(Sub, a, b)
TMul(a, b) == Bin(Mul, a, b)

\* the entries lo..hi of axis dim
SliceDim(t, dim, lo, hi) ==
    IF IsErr(t) THEN t
    ELSE LET sh == [t.shape EXCEPT ![dim] = Max(0, hi - lo + 1)]
         IN  T(sh, [i \in Idx(sh) |-> t.data[[i EXCEPT ![dim] = @ + lo - 1]]])

\* torch.cat((a, b), dim): all other axes must agree
Cat(a, b, dim) ==
    IF IsErr(a) THEN a
    ELSE IF IsErr(b) THEN b
    ELSE IF \/ Rank(a) # Rank(b)
            \/ \E j \in 1..Rank(a) : j # dim /\ a.shape[j] # b.shape[j]
         THEN Err("cat: sizes of tensors must match")
    ELSE LET sh == [a.shape EXCEPT ![dim] = @ + b.shape[dim]]
         IN  T(sh, [i \in Idx(sh) |->
                    IF i[dim] <= a.shape[dim] THEN a.data[i]
                    ELSE b.data[[i EXCEPT ![dim] = @ - a.shape[dim]]]])

\* the two parts t.chunk(2, dim) unpacks into: sizes ceil(n/2) and the rest;
\* fewer than two chunks cannot be unpacked into (gate, hidden)
ChunkSize(n) == (n + 1) \div 2

Chunk2(t, dim, part) ==
    IF IsErr(t) THEN t
    ELSE LET n == t.shape[dim]
             c == ChunkSize(n)
         IN  IF n < 2 THEN Err("not enough values to unpack")
             ELSE IF part = 1 THEN SliceDim(t, dim, 1, c)
             ELSE SliceDim(t, dim, c + 1, n)

RECURSIVE DotAt(_, _, _, _, _)
\* sum over c = 1..n of x[pre, c] * w[j, c]
DotAt(x, w, pre, j, n) ==
    IF n = 0 THEN Lin(QZero)
    ELSE Add(DotAt(x, w, pre, j, n - 1),
             Mul(x.data[pre \o <<n>>], w.data[<<j, n>>]))

\* F.linear(x, weight, bias): x (..., in), weight (out, in), bias (out) or None
Linear(x, weight, bias) ==
    IF IsErr(x) THEN x
    ELSE IF Rank(x) = 0 \/ x.shape[Rank(x)] # weight.shape[2]
         THEN Err("mat1 and mat2 shapes cannot be multiplied")
    ELSE LET sh == Front(x.shape) \o <<weight.shape[1]>>
         IN  T(sh, [i \in Idx(sh) |->
                LET d == DotAt(x, weight, Front(i), i[Len(i)], weight.shape[2])
                IN  IF IsNone(bias) THEN d ELSE Add(d, bias.data[<<i[Len(i)]>>])])

----------------------------------------------------------------------------
(* mingru/functional.py *)

\* (a variant of g_elem that subtracts the offset)
g_elem_minus(x) == IF GeZero(x) THEN Sub(x, Lin(QHalf)) ELSE Sigmoid(x)

g_elem(x) == IF GeZero(x) THEN Add(x, Lin(QHalf)) ELSE Sigmoid(x)

\* g: out[x >= 0] = x + 0.5, out[x < 0] = sigmoid(x)
g(x) == Map(g_elem, x)

\* (a variant of log_g_elem without the offset)
log_g_elem_nohalf(x) ==
    IF GeZero(x) THEN LogOf(x) ELSE Neg(Softplus(Neg(x)))

log_g_elem(x) ==
    IF GeZero(x) THEN LogOf(Add(x, Lin(QHalf))) ELSE Neg(Softplus(Neg(x)))

\* log_g: out[x >= 0] = log(x + 0.5), out[x < 0] = -softplus(-x)
log_g(x) == Map(log_g_elem, x)

OneMinus(x) == Sub(Lin(QOne), x)

NegSoftplus(x) == Neg(Softplus(x))

NegSoftplusNeg(x) == Neg(Softplus(Neg(x)))

\* the axis of time in (B, S, ...) tensors
TimeAxis == 2

mingru_sequential(x, h, weight, bias) ==
    LET proj == Linear(x, weight, bias)
        gate == Chunk2(proj, Rank(proj), 1)
        hidden == Chunk2(proj, Rank(proj), 2)
        z == Map(Sigmoid, gate)
        h_tilde == g(hidden)
    IN  TAdd(TMul(Map(OneMinus, z), h), TMul(z, h_tilde))

RECURSIVE CumSumAt(_, _)
CumSumAt(t, i) ==
    IF i[TimeAxis] = 1 THEN t.data[i]
    ELSE Add(CumSumAt(t, [i EXCEPT ![TimeAxis] = @ - 1]), t.data[i])

\* torch.cumsum(t, dim=1)
CumSum(t) ==
    IF IsErr(t) THEN t ELSE T(t.shape, [i \in Idx(t.shape) |-> CumSumAt(t, i)])

RECURSIVE LogCumSumExpAt(_, _)
LogCumSumExpAt(t, i) ==
    IF i[TimeAxis] = 1 THEN t.data[i]
    ELSE LogAddExp(LogCumSumExpAt(t, [i EXCEPT ![TimeAxis] = @ - 1]), t.data[i])

\* torch.logcumsumexp(t, dim=1)
LogCumSumExp(t) ==
    IF IsErr(t) THEN t
    ELSE T(t.shape, [i \in Idx(t.shape) |-> LogCumSumExpAt(t, i)])

\* one slot of zeros in front of the time axis
PadFront(t) ==
    IF IsErr(t) THEN t
    ELSE Cat(Full([t.shape EXCEPT ![TimeAxis] = 1], Lin(QZero)), t, TimeAxis)

\* mingru/scan.py, parallel_scan_log: the trajectory h_0..h_S from
\* log_coeffs a_1..a_S and log_values b_0..b_S
parallel_scan_log(log_coeffs, log_values) ==
    LET a_star == CumSum(PadFront(log_coeffs))
        d == TSub(log_values, a_star)
        c == LogCumSumExp(d)
        log_h == TAdd(a_star, c)
    IN  Map(Exp, log_h)

\* h[:, 1:]
Tail1(t) == IF IsErr(t) THEN t ELSE SliceDim(t, TimeAxis, 2, t.shape[TimeAxis])

\* (a variant of mingru_parallel that takes log(1 - z) for log(z))
mingru_parallel_log_z(x, h, weight, bias) ==
    LET proj == Linear(x, weight, bias)
        gate == Chunk2(proj, Rank(proj), 1)
        hidden == Chunk2(proj, Rank(proj), 2)
        log_z == Map(NegSoftplus, gate)
        log_coeffs == Map(NegSoftplus, gate)
        log_h_0 == Map(LogOf, h)
        log_tilde_h == log_g(hidden)
        hs == parallel_scan_log(log_coeffs,
                                Cat(log_h_0, TAdd(log_z, log_tilde_h), TimeAxis))
    IN  Tail1(hs)

\* (a variant of mingru_parallel that puts log(h0) after the log-values)
mingru_parallel_cat_order(x, h, weight, bias) ==
    LET proj == Linear(x, weight, bias)
        gate == Chunk2(proj, Rank(proj), 1)
        hidden == Chunk2(proj, Rank(proj), 2)
        log_z == Map(NegSoftplusNeg, gate)
        log_coeffs == Map(NegSoftplus, gate)
        log_h_0 == Map(LogOf, h)
        log_tilde_h == log_g(hidden)
        hs == parallel_scan_log(log_coeffs,
                                Cat(TAdd(log_z, log_tilde_h), log_h_0, TimeAxis))
    IN  Tail1(hs)

mingru_parallel(x, h, weight, bias) ==
    LET proj == Linear(x, weight, bias)
        gate == Chunk2(proj, Rank(proj), 1)
        hidden == Chunk2(proj, Rank(proj), 2)
        log_z == Map(NegSoftplusNeg, gate)
        log_coeffs == Map(NegSoftplus, gate)
        log_h_0 == Map(LogOf, h)
        log_tilde_h == log_g(hidden)
        hs == parallel_scan_log(log_coeffs,
                                Cat(log_h_0, TAdd(log_z, log_tilde_h), TimeAxis))
    IN  Tail1(hs)

\* (a variant of mingru with the two branches exchanged)
mingru_branches_swapped(x, h, weight, bias) ==
    LET S == x.shape[2]
    IN  IF S = 1 THEN mingru_parallel(x, h, weight, bias)
        ELSE mingru_sequential(x, h, weight, bias)

mingru(x, h, weight, bias) ==
    LET S == x.shape[2]
    IN  IF S = 1 THEN mingru_sequential(x, h, weight, bias)
        ELSE mingru_parallel(x, h, weight, bias)

----------------------------------------------------------------------------
(* The spatial variant *)

RECURSIVE Numel(_)
Numel(shape) == IF shape = <<>> THEN 1 ELSE Head(shape) * Numel(Tail(shape))

RECURSIVE Offset(_, _)
\* the row-major position (from 0) of index i in a tensor of this shape
Offset(shape, i) ==
    IF shape = <<>> THEN 0
    ELSE (Head(i) - 1) * Numel(Tail(shape)) + Offset(Tail(shape), Tail(i))

RECURSIVE Unflat(_, _)
\* the index at row-major position n
Unflat(shape, n) ==
    IF shape = <<>> THEN <<>>
    ELSE LET m == Numel(Tail(shape))
         IN  <<(n \div m) + 1>> \o Unflat(Tail(shape), n % m)

\* t.view(shape)
View(t, shape) ==
    IF IsErr(t) THEN t
    ELSE IF Numel(shape) # Numel(t.shape) THEN Err("view: shape is invalid for input")
    ELSE T(shape, [i \in Idx(shape) |-> t.data[Unflat(t.shape, Offset(shape, i))]])

RemoveAt(s, j) == SubSeq(s, 1, j - 1) \o SubSeq(s, j + 1, Len(s))

InsertAt(s, j, e) == SubSeq(s, 1, j - 1) \o <<e>> \o SubSeq(s, j, Len(s))

\* t.squeeze(1): drops the time axis when its size is 1
Squeeze1(t) ==
    IF IsErr(t) THEN t
    ELSE IF Rank(t) < TimeAxis \/ t.shape[TimeAxis] # 1 THEN t
    ELSE LET sh == RemoveAt(t.shape, TimeAxis)
         IN  T(sh, [i \in Idx(sh) |-> t.data[InsertAt(i, TimeAxis, 1)]])

\* t.unsqueeze(1)
Unsqueeze1(t) ==
    IF IsErr(t) THEN t
    ELSE LET sh == InsertAt(t.shape, TimeAxis, 1)
         IN  T(sh, [i \in Idx(sh) |-> t.data[RemoveAt(i, TimeAxis)]])

RECURSIVE ConvAt(_, _, _, _)
\* the sum of weight[j, c, dy, dx] * x[n, c, y + dy - 1 - py, x + dx - 1 - px]
\* over the first m positions of the kernel window (zero outside the map)
ConvAt(x, weight, i, m) ==
    IF m = 0 THEN Lin(QZero)
    ELSE LET ksh == Tail(weight.shape)
             k == Unflat(ksh, m - 1)
             py == (ksh[2] - 1) \div 2
             px == (ksh[3] - 1) \div 2
             yy == i[3] + k[2] - 1 - py
             xx == i[4] + k[3] - 1 - px
             inside == yy \in 1..x.shape[3] /\ xx \in 1..x.shape[4]
             term == IF inside
                     THEN Mul(x.data[<<i[1], k[1], yy, xx>>],
                              weight.data[<<i[2]>> \o k])
                     ELSE Lin(QZero)
         IN  Add(ConvAt(x, weight, i, m - 1), term)

\* F.conv2d(x, weight, bias, stride=1, padding="same"):
\* x (N, in, H, W), weight (out, in, k1, k2), bias (out) or None
Conv2d(x, weight, bias) ==
    IF IsErr(x) THEN x
    ELSE IF Rank(x) # 4 THEN Err("conv2d: expected 4D input")
    ELSE IF x.shape[2] # weight.shape[2] THEN Err("conv2d: channels mismatch")
    ELSE LET sh == <<x.shape[1], weight.shape[1], x.shape[3], x.shape[4]>>
         IN  T(sh, [i \in Idx(sh) |->
                LET d == ConvAt(x, weight, i, Numel(Tail(weight.shape)))
                IN  IF IsNone(bias) THEN d ELSE Add(d, bias.data[<<i[2]>>])])

conv_mingru_sequential(x, h, weight, bias) ==
    LET proj == Conv2d(Squeeze1(x), weight, bias)
        gate == Chunk2(proj, 2, 1)
        hidden == Chunk2(proj, 2, 2)
        z == Map(Sigmoid, gate)
        h_tilde == g(hidden)
        h_t == TAdd(TMul(Map(OneMinus, z), Squeeze1(h)), TMul(z, h_tilde))
    IN  Unsqueeze1(h_t)

\* (a variant of conv_mingru_parallel that keeps the slot of h0)
conv_mingru_parallel_no_tail(x, h, weight, bias) ==
    IF Rank(x) # 5 THEN Err("not enough values to unpack")
    ELSE IF Rank(h) < 3 THEN Err("tuple index out of range")
    ELSE
    LET B == x.shape[1]
        S == x.shape[2]
        input_dims == x.shape[3]
        H == x.shape[4]
        W == x.shape[5]
        hidden_dims == h.shape[3]
        proj == View(Conv2d(View(x, <<B * S, input_dims, H, W>>), weight, bias),
                     <<B, S, hidden_dims * 2, H, W>>)
        gate == Chunk2(proj, 3, 1)
        hidden == Chunk2(proj, 3, 2)
        log_z == Map(NegSoftplusNeg, gate)
        log_coeffs == Map(NegSoftplus, gate)
        log_h_0 == Map(LogOf, h)
        log_tilde_h == log_g(hidden)
    IN  parallel_scan_log(log_coeffs,
                          Cat(log_h_0, TAdd(log_z, log_tilde_h), TimeAxis))

conv_mingru_parallel(x, h, weight, bias) ==
    IF Rank(x) # 5 THEN Err("not enough values to unpack")
    ELSE IF Rank(h) < 3 THEN Err("tuple index out of range")
    ELSE
    LET B == x.shape[1]
        S == x.shape[2]
        input_dims == x.shape[3]
        H == x.shape[4]
        W == x.shape[5]
        hidden_dims == h.shape[3]
        proj == View(Conv2d(View(x, <<B * S, input_dims, H, W>>), weight, bias),
                     <<B, S, hidden_dims * 2, H, W>>)
        gate == Chunk2(proj, 3, 1)
        hidden == Chunk2(proj, 3, 2)
        log_z == Map(NegSoftplusNeg, gate)
        log_coeffs == Map(NegSoftplus, gate)
        log_h_0 == Map(LogOf, h)
        log_tilde_h == log_g(hidden)
        hs == parallel_scan_log(log_coeffs,
                                Cat(log_h_0, TAdd(log_z, log_tilde_h), TimeAxis))
    IN  Tail1(hs)

conv_mingru(x, h, weight, bias) ==
    LET S == x.shape[2]
    IN  IF S = 1 THEN conv_mingru_sequential(x, h, weight, bias)
        ELSE conv_mingru_parallel(x, h, weight, bias)

----------------------------------------------------------------------------
(* mingru/modules.py: class MinGRU *)

\* the values torch.nn.Linear draws for a parameter at construction: one of
\* two fixed draws (init = 1, 2), by layer, kind of parameter and row.
\* Layers after the first read rational inputs, so their gate depends on the
\* bias alone and their candidate is an affine map with weights >= 0.
ParamValue(init, lidx, kind, j) ==
    CASE kind = "gate_w" ->
            IF lidx = 1 THEN (IF init = 1 THEN Ln(3, 1) ELSE Whole(0)) ELSE Whole(0)
      [] kind = "gate_b" ->
            IF init = 1 THEN (IF j % 2 = 1 THEN Ln(1, 3) ELSE Whole(0))
            ELSE (IF j % 2 = 1 THEN Ln(3, 1) ELSE Ln(1, 3))
      [] kind = "cand_w" ->
            IF lidx = 1 THEN (IF init = 1 THEN Whole(1) ELSE Ln(3, 7))
            ELSE (IF init = 1 THEN Lin(QHalf) ELSE Whole(1))
      [] kind = "cand_b" ->
            IF lidx = 1 THEN (IF init = 1 THEN Lin(QHalf) ELSE Ln(1, 3))
            ELSE (IF init = 1 THEN Whole(1) ELSE Whole(0))
      [] kind = "al_w" -> IF init = 1 THEN Whole(1) ELSE Lin(QHalf)
      [] OTHER -> IF init = 1 THEN Whole(0) ELSE Whole(1)

\* torch.nn.Linear(ind, outd * 2): the gate rows first, then the candidate rows
GateHiddenLinear(init, lidx, ind, outd, bias) ==
    [ weight |-> T(<<outd * 2, ind>>,
                   [i \in Idx(<<outd * 2, ind>>) |->
                      IF i[1] <= outd THEN ParamValue(init, lidx, "gate_w", i[1])
                      ELSE ParamValue(init, lidx, "cand_w", i[1] - outd)]),
      bias |-> IF bias
               THEN T(<<outd * 2>>,
                      [i \in Idx(<<outd * 2>>) |->
                         IF i[1] <= outd THEN ParamValue(init, lidx, "gate_b", i[1])
                         ELSE ParamValue(init, lidx, "cand_b", i[1] - outd)])
               ELSE None ]

\* torch.nn.Linear(ind, outd) when ind # outd, else torch.nn.Identity()
AlignLayer(init, lidx, ind, outd, bias) ==
    IF ind # outd
    THEN [ identity |-> FALSE,
           weight |-> Full(<<outd, ind>>, ParamValue(init, lidx, "al_w", 1)),
           bias |-> IF bias THEN Full(<<outd>>, ParamValue(init, lidx, "al_b", 1))
                    ELSE None ]
    ELSE [identity |-> TRUE, weight |-> None, bias |-> None]

\* min(max(dropout, 0), 1) on rationals
Clamp01(q) == IF QLt(q, QZero) THEN QZero ELSE IF QLt(QOne, q) THEN QOne ELSE q

\* MinGRU.__init__; hidden_sizes is [int |-> n] or [list |-> <<n1, ...>>]
MinGRU(input_size, hidden_sizes, dropout, residual, bias, init) ==
    LET hs == IF "int" \in DOMAIN hidden_sizes THEN <<hidden_sizes.int>>
              ELSE hidden_sizes.list
        layer_sizes == <<input_size>> \o hs
    IN  [ layer_sizes |-> layer_sizes,
          num_layers |-> Len(hs),
          gate_hidden_layers |->
              [l \in 1..Len(hs) |->
                 GateHiddenLinear(init, l, layer_sizes[l], layer_sizes[l + 1], bias)],
          align_layers |->
              IF residual
              THEN [l \in 1..Len(hs) |->
                      AlignLayer(init, l, layer_sizes[l], layer_sizes[l + 1], bias)]
              ELSE <<>>,
          dropout |-> Clamp01(dropout),
          residual |-> residual ]

\* MinGRU.init_hidden_state
init_hidden_state(rnn, xin) ==
    [l \in 1..rnn.num_layers |->
       g(Full(<<xin.shape[1], 1, rnn.layer_sizes[l + 1]>>, Whole(0)))]

\* out[:, -1:]
Last1(a) ==
    LET n == a.shape[TimeAxis]
    IN  SliceDim(a, TimeAxis, IF n = 0 THEN 1 ELSE n, n)

Raise(m, done) ==
    [err |-> m, out |-> None, next_hidden |-> <<>>, evaluated |-> done]

RECURSIVE ForwardLayers_after_skip(_, _, _, _, _, _)
\* (a variant of ForwardLayers that saves the hidden state after the skip
\* connection and the dropout)
ForwardLayers_after_skip(rnn, hl, masks, lidx, inp, next_hidden) ==
    IF lidx > rnn.num_layers
    THEN [err |-> "", out |-> inp, next_hidden |-> next_hidden,
          evaluated |-> lidx - 1]
    ELSE IF lidx > Len(hl) THEN Raise("list index out of range", lidx - 1)
    ELSE
    LET gh_layer == rnn.gate_hidden_layers[lidx]
        h_prev == hl[lidx]
        is_not_last == lidx < rnn.num_layers
        Skip(rec) ==
            IF ~rnn.residual THEN rec
            ELSE IF rnn.align_layers[lidx].identity THEN TAdd(rec, inp)
            ELSE TAdd(rec, Linear(inp, rnn.align_layers[lidx].weight,
                                  rnn.align_layers[lidx].bias))
        Dropout(out) ==
            IF is_not_last /\ QLt(QZero, rnn.dropout)
            THEN TMul(out, masks[lidx]) ELSE out
    IN  Let(mingru(inp, h_prev, gh_layer.weight, gh_layer.bias), LAMBDA rec :
            IF IsErr(rec) THEN Raise(rec.err, lidx - 1)
            ELSE Let(Dropout(Skip(rec)), LAMBDA out :
                     IF IsErr(out) THEN Raise(out.err, lidx)
                     ELSE ForwardLayers_after_skip(rnn, hl, masks, lidx + 1, out,
                                                   Append(next_hidden, Last1(out)))))

RECURSIVE ForwardLayers(_, _, _, _, _, _)
\* the loop of MinGRU.forward from layer lidx on; masks[l] is the draw of
\* torch.bernoulli for layer l.  "evaluated" counts the layers whose
\* recurrence was computed before the call returned or raised.
ForwardLayers(rnn, hl, masks, lidx, inp, next_hidden) ==
    IF lidx > rnn.num_layers
    THEN [err |-> "", out |-> inp, next_hidden |-> next_hidden,
          evaluated |-> lidx - 1]
    ELSE IF lidx > Len(hl) THEN Raise("list index out of range", lidx - 1)
    ELSE
    LET gh_layer == rnn.gate_hidden_layers[lidx]
        h_prev == hl[lidx]
        is_not_last == lidx < rnn.num_layers
        Skip(rec) ==
            IF ~rnn.residual THEN rec
            ELSE IF rnn.align_layers[lidx].identity THEN TAdd(rec, inp)
            ELSE TAdd(rec, Linear(inp, rnn.align_layers[lidx].weight,
                                  rnn.align_layers[lidx].bias))
        Dropout(out) ==
            IF is_not_last /\ QLt(QZero, rnn.dropout)
            THEN TMul(out, masks[lidx]) ELSE out
    IN  Let(mingru(inp, h_prev, gh_layer.weight, gh_layer.bias), LAMBDA rec :
            IF IsErr(rec) THEN Raise(rec.err, lidx - 1)
            ELSE Let(Dropout(Skip(rec)), LAMBDA out :
                     IF IsErr(out) THEN Raise(out.err, lidx)
                     ELSE ForwardLayers(rnn, hl, masks, lidx + 1, out,
                                        Append(next_hidden, Last1(rec)))))

\* the argument h of forward: None, or a list of tensors
NoHidden == [none |-> TRUE, list |-> <<>>]

Hidden(l) == [none |-> FALSE, list |-> l]

\* MinGRU.forward(x, h): (out, next_hidden), or the exception it raises
forward(rnn, xin, hin, masks) ==
    IF ~(Rank(xin) = 3 /\ xin.shape[3] = rnn.layer_sizes[1])
    THEN Raise("x should be (B,S,input_size)", 0)
    ELSE Let(IF hin.none THEN init_hidden_state(rnn, xin) ELSE hin.list,
             LAMBDA hl : ForwardLayers(rnn, hl, masks, 1, xin, <<>>))

----------------------------------------------------------------------------
(* Inputs of the functional entry points *)

\* bounds of the enumerated inputs: batch size, sequence length, and the
\* number of entries of an input tensor
MaxB == 2
MaxS == 3
MaxNumel == 6

\* input entries
XVals == {Whole(0), Whole(1)}

Tensors(shape, vals) == {T(shape, d) : d \in [Idx(shape) -> vals]}

\* a tensor given by its rows (rank 2) or its entries (rank 1)
Mat(rows) ==
    T(<<Len(rows), Len(rows[1])>>,
      [i \in Idx(<<Len(rows), Len(rows[1])>>) |-> rows[i[1]][i[2]]])

Vec(es) == T(<<Len(es)>>, [i \in Idx(<<Len(es)>>) |-> es[i[1]]])

\* weight (2 * hidden, input) and bias of the combined gate/candidate
\* projection: the gate rows first, then the candidate rows
FlatParams ==
    { [weight |-> Mat(<< <<Whole(0)>>, <<Whole(1)>> >>), bias |-> None],
      [weight |-> Mat(<< <<Ln(3, 1)>>, <<Ln(1, 3)>> >>), bias |-> None],
      [weight |-> Mat(<< <<Ln(1, 9)>>, <<Whole(1)>> >>),
       bias |-> Vec(<<Ln(3, 1), Whole(1)>>)],
      [weight |-> Mat(<< <<Ln(3, 1)>>, <<Whole(0)>>, <<Whole(1)>>, <<Ln(1, 3)>> >>),
       bias |-> None] }

\* initial hidden states of a given shape: strictly positive ones, and ones
\* with a zero or a negative entry
PositiveH(shape) ==
    { Full(shape, Lin(QHalf)), Full(shape, Whole(2)),
      T(shape, [i \in Idx(shape) |-> Lin(Q(i[1] + i[Len(i)], 4))]) }

NonPositiveH(shape) ==
    { Full(shape, Whole(0)), Full(shape, Whole(-1)),
      T(shape, [i \in Idx(shape) |-> IF i[1] = 1 THEN Whole(-1) ELSE Whole(1)]) }

FlatXShapes ==
    { sh \in {<<b, s, 1>> : b \in 1..MaxB, s \in 0..MaxS} :
        Numel(sh) <= MaxNumel }

\* conv weight (2 * hidden, input, k1, k2): every tap of the kernel carries
\* the flat row's weight
ConvWeight(rows, k1, k2) ==
    T(<<Len(rows), 1, k1, k2>>,
      [i \in Idx(<<Len(rows), 1, k1, k2>>) |-> rows[i[1]]])

ConvParams ==
    { [weight |-> ConvWeight(<<Whole(0), Whole(1)>>, 1, 1), bias |-> None],
      [weight |-> ConvWeight(<<Ln(3, 1), Whole(1)>>, 1, 3),
       bias |-> Vec(<<Ln(1, 3), Whole(0)>>)],
      [weight |-> ConvWeight(<<Ln(1, 3), Ln(1, 3)>>, 3, 3), bias |-> None] }

MapSizes == {<<1, 1>>, <<1, 2>>}

ConvXShapes ==
    { sh \in {<<b, s, 1, m[1], m[2]>> : b \in 1..MaxB, s \in 0..MaxS, m \in MapSizes} :
        Numel(sh) <= MaxNumel }

----------------------------------------------------------------------------
(* The functional entry points, called once on a whole sequence, and the   *)
(* same sequence fed one timestep at a time to the sequential step         *)

VARIABLES fn, x, h, weight, bias, pc, ret, t, hcur, ref

\* the module, the hidden states given to the first call of forward and to
\* the next one, the inputs fed and the outputs returned so far, and the
\* last call: its arguments and what it returned or raised
VARIABLES rnn, hinit, hid, xs, outs, calls, argx, argh, res

fvars == <<fn, x, h, weight, bias, pc, ret, t, hcur, ref>>

mvars == <<rnn, hinit, hid, xs, outs, calls, argx, argh, res>>

vars == <<fvars, mvars>>

\* no module is under test
NoModule ==
    /\ rnn = None /\ hinit = None /\ hid = None /\ xs = None /\ outs = None
    /\ calls = 0 /\ argx = None /\ argh = None /\ res = None

\* no functional entry point is under test
NoFunction ==
    /\ fn = "MinGRU.forward" /\ x = None /\ h = None /\ weight = None
    /\ bias = None /\ pc = "module" /\ ret = None /\ t = 0 /\ hcur = None
    /\ ref = None

InitF ==
    /\ pc = "init"
    /\ ret = None
    /\ t = 0
    /\ ref = None
    /\ \/ /\ fn = "mingru"
          /\ \E sh \in FlatXShapes, p \in FlatParams :
                /\ x \in Tensors(sh, XVals)
                /\ weight = p.weight
                /\ bias = p.bias
                /\ LET hs == <<sh[1], 1, p.weight.shape[1] \div 2>>
                   IN  h \in PositiveH(hs) \cup NonPositiveH(hs)
       \/ /\ fn = "conv_mingru"
          /\ \E sh \in ConvXShapes, p \in ConvParams :
                /\ x \in Tensors(sh, XVals)
                /\ weight = p.weight
                /\ bias = p.bias
                /\ LET hs == <<sh[1], 1, p.weight.shape[1] \div 2, sh[4], sh[5]>>
                   IN  h \in PositiveH(hs) \cup NonPositiveH(hs)
    /\ hcur = h
    /\ NoModule

\* the slot t of the time axis, as a sequence of length 1
TimeSlot(a, n) == SliceDim(a, TimeAxis, n, n)

\* a call of mingru on the whole sequence
CallMingru ==
    /\ pc = "init"
    /\ fn = "mingru"
    /\ ret' = mingru(x, h, weight, bias)
    /\ pc' = "called"
    /\ UNCHANGED <<fn, x, h, weight, bias, t, hcur, ref, mvars>>

\* a call of conv_mingru on the whole sequence
CallConvMingru ==
    /\ pc = "init"
    /\ fn = "conv_mingru"
    /\ ret' = conv_mingru(x, h, weight, bias)
    /\ pc' = "called"
    /\ UNCHANGED <<fn, x, h, weight, bias, t, hcur, ref, mvars>>

\* the next timestep through mingru_sequential, from the state it returned
\* for the timestep before
StepSequential ==
    /\ pc = "called"
    /\ fn = "mingru"
    /\ t < x.shape[TimeAxis]
    /\ \E hn \in {mingru_sequential(TimeSlot(x, t + 1), hcur, weight, bias)} :
           /\ hcur' = hn
           /\ ref' = IF t = 0 THEN hn ELSE Cat(ref, hn, TimeAxis)
    /\ t' = t + 1
    /\ UNCHANGED <<fn, x, h, weight, bias, pc, ret, mvars>>

StepConvSequential ==
    /\ pc = "called"
    /\ fn = "conv_mingru"
    /\ t < x.shape[TimeAxis]
    /\ \E hn \in {conv_mingru_sequential(TimeSlot(x, t + 1), hcur, weight, bias)} :
           /\ hcur' = hn
           /\ ref' = IF t = 0 THEN hn ELSE Cat(ref, hn, TimeAxis)
    /\ t' = t + 1
    /\ UNCHANGED <<fn, x, h, weight, bias, pc, ret, mvars>>

NextF == CallMingru \/ CallConvMingru \/ StepSequential \/ StepConvSequential

SpecF == InitF /\ [][NextF]_vars

----------------------------------------------------------------------------
(* MinGRU.forward, called on a sequence chunk by chunk: each call is given *)
(* the hidden states the call before returned                              *)

Modules ==
    { MinGRU(1, [int |-> 1], QZero, FALSE, FALSE, 1),
      MinGRU(1, [list |-> <<1, 1>>], QZero, FALSE, TRUE, 1),
      MinGRU(1, [list |-> <<2, 1>>], QZero, TRUE, TRUE, 2),
      MinGRU(1, [list |-> <<1, 1>>], QZero, TRUE, FALSE, 1),
      MinGRU(1, [list |-> <<1, 1>>], QHalf, FALSE, TRUE, 2),
      MinGRU(1, [list |-> <<1, 2>>], <<3, 2>>, TRUE, TRUE, 1) }

HiddenShape(m, b, l) == <<b, 1, m.layer_sizes[l + 1]>>

\* hidden states of the documented shapes (B, 1, hidden_size), strictly
\* positive, or None
ValidHidden(m, b) ==
    { NoHidden,
      Hidden([l \in 1..m.num_layers |-> Full(HiddenShape(m, b, l), Whole(2))]),
      Hidden([l \in 1..m.num_layers |->
                T(HiddenShape(m, b, l),
                  [i \in Idx(HiddenShape(m, b, l)) |-> Lin(Q(i[1] + l, 2))])]) }

\* hidden states with one tensor of another shape: the batch size of the
\* first layer's, or the width of the last layer's
MisshapedHidden(m, b) ==
    { Hidden([l \in 1..m.num_layers |->
                Full(IF l = 1 THEN <<IF b = 1 THEN 2 ELSE 1, 1, m.layer_sizes[2]>>
                     ELSE HiddenShape(m, b, l), Whole(2))]),
      Hidden([l \in 1..m.num_layers |->
                Full(IF l = m.num_layers
                     THEN <<b, 1, m.layer_sizes[l + 1] + 1>>
                     ELSE HiddenShape(m, b, l), Whole(2))]) }

\* what torch.bernoulli(p) can draw for one element
Bernoulli(p) ==
    IF p = QZero THEN {Whole(0)} ELSE IF p = QOne THEN {Whole(1)}
    ELSE {Whole(0), Whole(1)}

RECURSIVE MaskSeqs(_, _, _, _)
\* the draws of the dropout masks of layers l.. for a (b, s, .) input: one
\* mask of the layer's output shape for every layer but the last
MaskSeqs(m, b, s, l) ==
    IF l > m.num_layers THEN {<<>>}
    ELSE IF l = m.num_layers \/ m.dropout = QZero
         THEN {<<None>> \o r : r \in MaskSeqs(m, b, s, l + 1)}
    ELSE {<<k>> \o r :
            k \in Tensors(<<b, s, m.layer_sizes[l + 1]>>,
                          Bernoulli(QSub(QOne, m.dropout))),
            r \in MaskSeqs(m, b, s, l + 1)}

\* the batch sizes a module is called with: a module that draws random
\* dropout masks is called with single sequences only
BatchSizes(m) ==
    IF QLt(QZero, m.dropout) /\ QLt(m.dropout, QOne) THEN {1} ELSE 1..MaxB

Init ==
    /\ NoFunction
    /\ rnn \in Modules
    /\ \E b \in BatchSizes(rnn) :
          /\ hinit \in ValidHidden(rnn, b) \cup MisshapedHidden(rnn, b)
          /\ xs = T(<<b, 0, rnn.layer_sizes[1]>>, <<>>)
          /\ outs = T(<<b, 0, rnn.layer_sizes[rnn.num_layers + 1]>>, <<>>)
    /\ hid = hinit
    /\ calls = 0
    /\ argx = None
    /\ argh = NoHidden
    /\ res = Raise("", 0)

\* a call of forward on the next s timesteps, with the hidden states the
\* call before returned (the first call: with hinit)
Forward ==
    /\ res.err = ""
    /\ \E s \in 1..MaxS :
          /\ xs.shape[TimeAxis] + s <= MaxS
          /\ xs.shape[1] * (xs.shape[TimeAxis] + s) <= MaxNumel
          /\ \E chunk \in Tensors(<<xs.shape[1], s, xs.shape[3]>>, XVals),
                masks \in MaskSeqs(rnn, xs.shape[1], s, 1) :
                \E r \in {forward(rnn, chunk, hid, masks)} :
                    /\ res' = r
                    /\ argx' = chunk
                    /\ argh' = hid
                    /\ IF r.err = ""
                       THEN /\ xs' = Cat(xs, chunk, TimeAxis)
                            /\ outs' = Cat(outs, r.out, TimeAxis)
                            /\ hid' = Hidden(r.next_hidden)
                       ELSE UNCHANGED <<xs, outs, hid>>
    /\ calls' = calls + 1
    /\ UNCHANGED <<rnn, hinit, fvars>>

\* a first call with an input of another channel width than input_size
ForwardWrongWidth ==
    /\ calls = 0
    /\ \E chunk \in Tensors(<<xs.shape[1], 1, xs.shape[3] + 1>>, XVals) :
          /\ res' = forward(rnn, chunk, hid, <<>>)
          /\ argx' = chunk
    /\ argh' = hid
    /\ calls' = calls + 1
    /\ UNCHANGED <<rnn, hinit, hid, xs, outs, fvars>>

Next == Forward \/ ForwardWrongWidth

Spec == Init /\ [][Next]_vars

----------------------------------------------------------------------------
(* Properties of the functional entry points (under SpecF) *)

AllPositive(a) == ~IsErr(a) /\ \A i \in Idx(a.shape) : IsPositive(a.data[i])

SomeNonPositive(a) == ~IsErr(a) /\ \E i \in Idx(a.shape) : ~IsPositive(a.data[i])

HasUnrep(a) == ~IsErr(a) /\ \E i \in Idx(a.shape) : IsUnrep(a.data[i])

HasNaN(a) == ~IsErr(a) /\ \E i \in Idx(a.shape) : IsNaN(a.data[i])

SeqLen == x.shape[TimeAxis]

\* every number the enumerated inputs lead to has a name in the model
NoUnrepF == ~HasUnrep(ret) /\ ~HasUnrep(ref) /\ ~HasUnrep(hcur)

\* the first n timesteps of a sequence
Prefix(a, n) == SliceDim(a, TimeAxis, 1, n)

\* C1: for S >= 2 and a strictly positive h0, mingru_parallel returns the
\* sequence that S applications of mingru_sequential from h0 produce
C1_ParallelEqualsSequential ==
    (pc = "called" /\ fn = "mingru" /\ SeqLen >= 2 /\ t = SeqLen /\ AllPositive(h))
        => /\ ~IsErr(ret)
           /\ ret = mingru_parallel(x, h, weight, bias)
           /\ ret = ref

C1_Witness ==
    /\ pc = "called" /\ fn = "mingru" /\ SeqLen = 3 /\ t = 3 /\ AllPositive(h)
    /\ x.shape[1] = 2
    /\ weight.shape[1] = 4
    /\ ret = ref
    /\ ~IsErr(ret)
    /\ \E i, j \in Idx(ret.shape) : ret.data[i] # ret.data[j]

C3_Positive ==
    (fn = "mingru" /\ AllPositive(h))
        => /\ AllPositive(hcur)
           /\ pc = "called" => AllPositive(ret)
           /\ t >= 1 => AllPositive(ref)

C3_Witness ==
    /\ fn = "mingru" /\ AllPositive(h) /\ pc = "called" /\ SeqLen = 3 /\ t = 3
    /\ AllPositive(ret)
    /\ AllPositive(hcur)
    /\ \E i \in Idx(ret.shape) : QLt(ret.data[i].v, <<1, 3>>)

\* C4 (as claimed): a call with S = 0 is rejected with an error
C4_EmptySequenceRejected ==
    (pc = "called" /\ SeqLen = 0) => IsErr(ret)

\* C5 (as claimed): a call with a non-positive element in h0 fails with an
\* error, on the S = 1 branch and on the S >= 2 branch
C5_NonPositiveRejected ==
    (pc = "called" /\ SeqLen >= 1 /\ SomeNonPositive(h)) => IsErr(ret)

\* C7: mingru dispatches on S alone: S = 1 is one sequential step, S >= 2
\* is the parallel scan, and the result has exactly S time positions
C7_Dispatch ==
    (pc = "called" /\ fn = "mingru" /\ SeqLen >= 1)
        => /\ ~IsErr(ret)
           /\ ret.shape = <<x.shape[1], SeqLen, weight.shape[1] \div 2>>
           /\ SeqLen = 1 => ret = mingru_sequential(x, h, weight, bias)
           /\ SeqLen >= 2 => ret = mingru_parallel(x, h, weight, bias)
           /\ (SeqLen = 1 /\ t = 1) => ret = ref

C7_Witness ==
    /\ pc = "called" /\ fn = "mingru" /\ SeqLen = 1 /\ t = 1
    /\ ret = ref
    /\ ret.shape = <<2, 1, 2>>

\* C8: batch 1, width 1, S = 3, gate logits 0, candidate logits 1,
\* h0 = g(0) = 1/2: the parallel evaluation returns 1, 5/4, 11/8
C8_Scenario ==
    (/\ pc = "called" /\ fn = "mingru"
     /\ x = Full(<<1, 3, 1>>, Whole(1))
     /\ weight = Mat(<< <<Whole(0)>>, <<Whole(1)>> >>)
     /\ bias = None
     /\ h = g(Full(<<1, 1, 1>>, Whole(0))))
        => /\ Linear(x, weight, bias) =
                T(<<1, 3, 2>>, [i \in Idx(<<1, 3, 2>>) |-> Whole(i[3] - 1)])
           /\ ret = T(<<1, 3, 1>>,
                      [i \in Idx(<<1, 3, 1>>) |->
                         Lin(<< <<1, 1>>, <<5, 4>>, <<11, 8>> >>[i[2]])])
           /\ ret = mingru_parallel(x, h, weight, bias)

C8_Witness ==
    /\ pc = "called" /\ fn = "mingru"
    /\ x = Full(<<1, 3, 1>>, Whole(1))
    /\ weight = Mat(<< <<Whole(0)>>, <<Whole(1)>> >>)
    /\ bias = None
    /\ h = Full(<<1, 1, 1>>, Lin(QHalf))
    /\ ret.data[<<1, 3, 1>>] = Lin(<<11, 8>>)

\* the (B, S, C) tensor at one spatial position of a (B, S, C, H, W) tensor
PixelOf(a, y, xx) ==
    IF IsErr(a) THEN a
    ELSE LET sh == SubSeq(a.shape, 1, 3)
         IN  T(sh, [i \in Idx(sh) |-> a.data[i \o <<y, xx>>]])

\* the weights at the centre of the kernel, as a linear weight (out, in)
CenterTap(w) ==
    LET sh == SubSeq(w.shape, 1, 2)
        cy == (w.shape[3] - 1) \div 2 + 1
        cx == (w.shape[4] - 1) \div 2 + 1
    IN  T(sh, [i \in Idx(sh) |-> w.data[i \o <<cy, cx>>]])

\* the window of the input the kernel covers at one position, flattened to
\* channels (zero outside the map), and the kernel flattened the same way
Patch(a, w, y, xx) ==
    LET ksh == Tail(w.shape)
        sh == <<a.shape[1], a.shape[2], Numel(ksh)>>
    IN  T(sh, [i \in Idx(sh) |->
            LET k == Unflat(ksh, i[3] - 1)
                yy == y + k[2] - 1 - (ksh[2] - 1) \div 2
                xk == xx + k[3] - 1 - (ksh[3] - 1) \div 2
            IN  IF yy \in 1..a.shape[4] /\ xk \in 1..a.shape[5]
                THEN a.data[<<i[1], i[2], k[1], yy, xk>>]
                ELSE Whole(0)])

FlatKernel(w) == View(w, <<w.shape[1], Numel(Tail(w.shape))>>)

\* C9: on 1 x 1 maps conv_mingru returns what mingru returns on the
\* flattened tensors; on any map, the states at one spatial position are
\* what mingru computes from that position's logits and h0 alone
C9_SpatialFlat ==
    (pc = "called" /\ fn = "conv_mingru" /\ SeqLen >= 1)
        => /\ ~IsErr(ret)
           /\ (x.shape[4] = 1 /\ x.shape[5] = 1) =>
                PixelOf(ret, 1, 1) =
                    mingru(PixelOf(x, 1, 1), PixelOf(h, 1, 1),
                           CenterTap(weight), bias)
           /\ \A y \in 1..x.shape[4], xx \in 1..x.shape[5] :
                PixelOf(ret, y, xx) =
                    mingru(Patch(x, weight, y, xx), PixelOf(h, y, xx),
                           FlatKernel(weight), bias)

C9_Witness ==
    /\ pc = "called" /\ fn = "conv_mingru" /\ SeqLen = 3
    /\ x.shape = <<2, 3, 1, 1, 1>>
    /\ weight.shape[3] = 3
    /\ AllPositive(h)
    /\ ~IsErr(ret)
    /\ PixelOf(ret, 1, 1) =
          mingru(PixelOf(x, 1, 1), PixelOf(h, 1, 1), CenterTap(weight), bias)
    /\ \E i, j \in Idx(ret.shape) : ret.data[i] # ret.data[j]

----------------------------------------------------------------------------
(* Properties of MinGRU.forward (under Spec) *)

NoMasks == [l \in 1..rnn.num_layers |-> None]

BatchSize == xs.shape[1]

\* every number the enumerated inputs lead to has a name in the model
NoUnrepM ==
    /\ ~HasUnrep(outs)
    /\ \A l \in 1..Len(hid.list) : ~HasUnrep(hid.list[l])

\* the last call's input or hidden states do not have the shapes of the
\* module: (B, S, input_size) and (B, 1, hidden_size) per layer
ShapeMismatch ==
    \/ argx.shape[3] # rnn.layer_sizes[1]
    \/ \E l \in 1..Len(argh.list) :
          argh.list[l].shape # <<argx.shape[1], 1, rnn.layer_sizes[l + 1]>>

\* C6 (as claimed): a call with a shape mismatch raises before any layer is
\* evaluated and returns no output and no hidden state
C6_ShapeMismatchRaisesFirst ==
    (calls >= 1 /\ ShapeMismatch) => (res.err # "" /\ res.evaluated = 0)

====
